---- MODULE Spec2Model ----
(***************************************************************************)
(* Model of the maze playground core: the probabilistic maze generator     *)
(* (MazeGenerator.py, MazeConfig.py), the maze game engine (MazeGame.py)   *)
(* and the MDP solver (MazeDP.py).  Cells are <<row, col>> pairs, 0-based  *)
(* as in the source.                                                       *)
(***************************************************************************)
EXTENDS Integers, Sequences, FiniteSets, TLC

(***************************************************************************)
(* Cell type codes (MazeConfig.CellType) and directions.                   *)
(***************************************************************************)
UNVISITED == -2
WALL == -1
ROOM == 0
VISITED == 2
PLAYER == 3
EXIT == 4

\* Python's None (an absent argument, an unset field)
None == <<>>

\* a value returned by time.time()
Stamp == <<"time">>

\* list(Direction): the declaration order of the Direction enum
Directions == <<"UP", "DOWN", "LEFT", "RIGHT">>

DirNames == {"UP", "DOWN", "LEFT", "RIGHT"}

\* Direction.value
DirValue(d) ==
    CASE d = "UP" -> <<-1, 0>>
      [] d = "DOWN" -> <<1, 0>>
      [] d = "LEFT" -> <<0, -1>>
      [] d = "RIGHT" -> <<0, 1>>

Abs(n) == IF n < 0 THEN -n ELSE n

Max2(a, b) == IF a >= b THEN a ELSE b

Min2(a, b) == IF a <= b THEN a ELSE b

\* the cells of a height x width grid
CellsOf(h, w) == (0 .. h - 1) \X (0 .. w - 1)

(***************************************************************************)
(* Bounds of the model.                                                    *)
(***************************************************************************)
\* largest maze_height / maze_width a generator configuration is drawn with
MaxDim == 3

\* how many times generate() is called on one MazeGenerator instance
MaxGenCalls == 2

(***************************************************************************)
(* MazeConfig: probabilities are integers in units of 1/PScale, direction  *)
(* weights are fractions <<numerator, denominator>>.                       *)
(***************************************************************************)
\* validate_config: smallest accepted maze_width / maze_height
MinDim == 3

\* denominator of the probabilities: 1.0 is PScale (divisible by 1,2,3,4)
PScale == 60

\* direction weights the caller passes are multiples of 1/WDen
WDen == 4

RECURSIVE Gcd(_, _)
Gcd(a, b) == IF b = 0 THEN a ELSE Gcd(b, a % b)

\* a fraction in lowest terms
Frac(n, d) == LET g == Gcd(n, d) IN <<n \div g, d \div g>>

\* weight maps given to the constructor, numerators over WDen
RawWeightMaps ==
    { [UP |-> 1, DOWN |-> 1, LEFT |-> 1, RIGHT |-> 1],
      [UP |-> 0, DOWN |-> 0, LEFT |-> 0, RIGHT |-> 0],
      [UP |-> 4, DOWN |-> 4, LEFT |-> 4, RIGHT |-> 4],
      [UP |-> 0, DOWN |-> 4, LEFT |-> 2, RIGHT |-> 2],   \* sum 2.0, one zero
      [UP |-> 1, DOWN |-> 1, LEFT |-> 1, RIGHT |-> 5] }   \* 5/4 > 1.0: rejected

\* configurations handed to MazeConfig(...): some are rejected
RawConfigs ==
    [ maze_height : (MinDim - 1) .. MaxDim,
      maze_width : (MinDim - 1) .. MaxDim,
      decay_factor : {15},
      base_prob_factor : {15},
      min_room_prob : {3, PScale},
      direction_weights : RawWeightMaps ]

\* validate_config: TRUE when no ValueError is raised
validate_config(c) ==
    /\ ~(c.maze_width < MinDim)
    /\ ~(c.maze_height < MinDim)
    /\ 0 <= c.decay_factor /\ c.decay_factor <= PScale
    /\ 0 <= c.base_prob_factor /\ c.base_prob_factor <= PScale
    /\ 0 <= c.min_room_prob /\ c.min_room_prob <= PScale
    /\ \A d \in DirNames : 0 <= c.direction_weights[d] /\ c.direction_weights[d] <= WDen

\* normalize_direction_weights leaving the weights as given
normalize_direction_weights_as_given(wts) == [d \in DirNames |-> Frac(wts[d], WDen)]

\* normalize_direction_weights, on numerators over WDen
normalize_direction_weights(wts) ==
    LET total_weight == wts.UP + wts.DOWN + wts.LEFT + wts.RIGHT
    IN  IF total_weight = 0
        THEN [d \in DirNames |-> Frac(1, 4)]
        ELSE IF total_weight # WDen
             THEN [d \in DirNames |-> Frac(wts[d], total_weight)]
             ELSE [d \in DirNames |-> Frac(wts[d], WDen)]

\* MazeConfig.__post_init__ on an accepted configuration
MazeConfig(c) ==
    [c EXCEPT !.direction_weights = normalize_direction_weights(c.direction_weights)]

VARIABLES
    config,        \* MazeGenerator.config
    gen_maze,      \* MazeGenerator.maze
    gen_stats,     \* MazeGenerator.stats
    queue,         \* generate(): the FIFO work queue
    neighbors,     \* generate(): unvisited neighbours of the dequeued cell
    nidx,          \* generate(): index of the next neighbour to process
    gen_pc,        \* "idle", "running", "done" or "crashed"
    gen_calls,     \* number of generate() calls made on the instance
    gen_start,     \* start cell of the current generate() call
    last_room,     \* facts recorded when a neighbour was last processed
    enqueued       \* generate(): the cells appended to the queue in this call

gen_vars == <<config, gen_maze, gen_stats, queue, neighbors, nidx, gen_pc,
              gen_calls, gen_start, last_room, enqueued>>

(***************************************************************************)
(* MazeGenerator.                                                          *)
(***************************************************************************)
GenCells == CellsOf(config.maze_height, config.maze_width)

\* MazeGenerator.in_bounds
gen_in_bounds(x, y) ==
    0 <= x /\ x < config.maze_height /\ 0 <= y /\ y < config.maze_width

\* all orders of the four directions
DirPerms ==
    { p \in [1 .. 4 -> DirNames] : \A i, j \in 1 .. 4 : i # j => p[i] # p[j] }

\* weighted_shuffle: the orders the sort by u ** (1 / weight) can produce;
\* a weight of 0 raises ZeroDivisionError, which leaves no order at all
weighted_shuffle(weights) ==
    IF \E d \in DirNames : weights[d][1] = 0 THEN {} ELSE DirPerms

RECURSIVE UnvisitedInOrder(_, _, _, _, _)
UnvisitedInOrder(m, x, y, ordered_dirs, i) ==
    IF i > Len(ordered_dirs) THEN <<>>
    ELSE LET nx == x + DirValue(ordered_dirs[i])[1]
             ny == y + DirValue(ordered_dirs[i])[2]
             rest == UnvisitedInOrder(m, x, y, ordered_dirs, i + 1)
         IN  IF gen_in_bounds(nx, ny) /\ m[<<nx, ny>>] = UNVISITED
             THEN <<(<<nx, ny>>)>> \o rest
             ELSE rest

\* get_unvisited_neighbors returning every in-bounds neighbour that is not a
\* WALL
get_unvisited_neighbors_any(m, x, y, ordered_dirs) ==
    SelectSeq([i \in 1 .. 4 |-> <<x + DirValue(ordered_dirs[i])[1],
                                  y + DirValue(ordered_dirs[i])[2]>>],
              LAMBDA c : gen_in_bounds(c[1], c[2]) /\ m[c] # WALL)

\* get_unvisited_neighbors, for one outcome of the weighted shuffle
get_unvisited_neighbors(m, x, y, ordered_dirs) ==
    UnvisitedInOrder(m, x, y, ordered_dirs, 1)

\* count_adjacent_rooms: the count starts at -1
count_adjacent_rooms(m, x, y) ==
    -1 + Cardinality({ i \in 1 .. 4 :
            LET nx == x + DirValue(Directions[i])[1]
                ny == y + DirValue(Directions[i])[2]
            IN  gen_in_bounds(nx, ny) /\ m[<<nx, ny>>] = ROOM })

\* get_room_neighbors, as a set
get_room_neighbors(m, x, y) ==
    { c \in { <<x - 1, y>>, <<x + 1, y>>, <<x, y - 1>>, <<x, y + 1>> } :
        gen_in_bounds(c[1], c[2]) /\ m[c] = ROOM }

Adjacent4(a, b) == Abs(a[1] - b[1]) + Abs(a[2] - b[2]) = 1

\* mark_region: the cells of nbrs reached from start through 4-adjacent
\* cells of nbrs
RECURSIVE mark_region(_, _)
mark_region(seen, nbrs) ==
    LET more == { t \in nbrs \ seen : \E c \in seen : Adjacent4(c, t) }
    IN  IF more = {} THEN seen ELSE mark_region(seen \cup more, nbrs)

RECURSIVE CountRegions(_, _)
CountRegions(todo, nbrs) ==
    IF todo = {} THEN 0
    ELSE LET pos == CHOOSE c \in todo : TRUE
         IN  1 + CountRegions(todo \ mark_region({pos}, nbrs), nbrs)

\* count_room_regions_around
count_room_regions_around(m, x, y) ==
    LET nbrs == get_room_neighbors(m, x, y) IN CountRegions(nbrs, nbrs)

\* calculate_room_probability, in units of 1/PScale
calculate_room_probability(m, x, y, neighbor_index, total_neighbors) ==
    LET base_prob == IF total_neighbors > 0
                     THEN ((neighbor_index + 1) * PScale) \div total_neighbors
                     ELSE config.base_prob_factor
        decay == (config.decay_factor * count_adjacent_rooms(m, x, y))
    IN  Max2(config.min_room_prob, base_prob - decay)

\* the truth values rand_val < room_prob can take for rand_val in [0, 1)
RandBelow(room_prob) ==
    { b \in BOOLEAN : (b => room_prob > 0) /\ (~b => room_prob < PScale) }

\* should_create_room without the region test
should_create_room_any_region(m, x, y, below) == below

\* should_create_room, for one outcome of the random draw
should_create_room(m, x, y, below) ==
    count_room_regions_around(m, x, y) <= 1 /\ below

\* finalize_maze writing the ROOM code
finalize_maze_as_room(m) ==
    [c \in DOMAIN m |-> IF m[c] = UNVISITED THEN ROOM ELSE m[c]]

\* finalize_maze stopping before the last row
finalize_maze_short(m) ==
    [c \in DOMAIN m |-> IF m[c] = UNVISITED /\ c[1] < config.maze_height - 1
                        THEN WALL ELSE m[c]]

\* finalize_maze: the grid it leaves
finalize_maze(m) ==
    [c \in DOMAIN m |-> IF m[c] = UNVISITED THEN WALL ELSE m[c]]

\* the set of cells reachable from the cells of from through 4-adjacent
\* cells of S
RECURSIVE Reach(_, _)
Reach(from, S) ==
    LET more == { t \in S \ from : \E c \in from : Adjacent4(c, t) }
    IN  IF more = {} THEN from ELSE Reach(from \cup more, S)

RoomsOf(m) == { c \in DOMAIN m : m[c] = ROOM }

(***************************************************************************)
(* MazeGame.  The engine object is the record game; a grid is a function   *)
(* from its cells to cell codes, and None stands for Python's None.        *)
(***************************************************************************)
\* shapes <<height, width>> of the grids handed to the game
GridShapes == { <<1, 3>>, <<2, 1>> }

\* longest player_path the model follows
MaxPath == 3

\* MazeGame.__init__: self.exit_search_radius
exit_search_radius == 3

\* MazeGame.__init__: self.min_exit_distance
min_exit_distance == 5

\* cell codes of the grids handed to the game
GridCodes == {WALL, ROOM}

\* a falsy maze argument ([] or None): load_maze rejects it
EmptyGrid == None

GameGrids ==
    UNION { [CellsOf(s[1], s[2]) -> GridCodes] : s \in GridShapes }

\* keys of DIRECTION_MAPPING ('w', 's', 'a', 'd'; the Direction members map
\* to the same deltas), and one key that is not in the mapping
MoveKeys == {"w", "s", "a", "d"}

DirectionInputs == MoveKeys \cup {"x"}

\* DIRECTION_MAPPING
DIRECTION_MAPPING(k) ==
    CASE k = "w" -> <<-1, 0>>
      [] k = "s" -> <<1, 0>>
      [] k = "a" -> <<0, -1>>
      [] k = "d" -> <<0, 1>>

\* values of the min_distance / min_exit_distance argument: None when it is
\* omitted, <<d>> for the integer d
DistanceInputs == {None, <<0>>, <<1>>, <<2>>}

\* values of the position / player_pos argument: None, the cell every grid
\* has, a cell only the one-row grids have, and a position outside every grid
PositionInputs == {None, <<0, 0>>, <<0, 1>>, <<0, 3>>}

\* x == CellType.M for an int x: CellType derives from Enum, not IntEnum,
\* so an int never compares equal to a member
IntEqualsMember(cell_value, member_value) == FALSE

VARIABLES
    game,          \* the MazeGame instance
    caller_maze,   \* the list the caller handed to MazeGame(...) / load_maze
    aliased,       \* TRUE while game.maze is the caller's list object itself
    last           \* the last call: its name, its return value, and the
                   \* argument of a move_player or generate_exit call

game_vars == <<game, caller_maze, aliased, last>>

\* GameStats()
GameStats == [moves_count |-> 0, start_time |-> None, end_time |-> None,
              player_path |-> <<>>]

\* maze_dimensions
maze_height(g) ==
    IF g.maze = None THEN 0 ELSE Cardinality({ c[1] : c \in DOMAIN g.maze })

maze_width(g) ==
    IF g.maze = None THEN 0 ELSE Cardinality({ c[2] : c \in DOMAIN g.maze })

\* MazeGame.in_bounds
in_bounds(g, x, y) ==
    /\ g.maze # None
    /\ 0 <= x /\ x < maze_height(g) /\ 0 <= y /\ y < maze_width(g)

\* MazeGame.is_walkable
is_walkable(g, x, y) ==
    /\ in_bounds(g, x, y)
    /\ ~IntEqualsMember(g.maze[<<x, y>>], WALL)

\* MazeGame.get_available_rooms
get_available_rooms(g, exclude_player) ==
    IF g.maze = None THEN {}
    ELSE { c \in DOMAIN g.maze :
             /\ IntEqualsMember(g.maze[c], ROOM)
             /\ ~(exclude_player /\ g.player_position = c) }

\* reset_game_state
reset_game_state(g) ==
    [g EXCEPT !.player_position = None, !.exit_position = None,
              !.is_playing = FALSE, !.game_won = FALSE, !.game_over = FALSE,
              !.stats = GameStats]

Outcome(g, r) == [g |-> g, ret |-> r]

\* MazeGame.__init__
NewGame(m) ==
    [maze |-> m, original_maze |-> None, player_position |-> None,
     exit_position |-> None, is_playing |-> FALSE, game_won |-> FALSE,
     game_over |-> FALSE, stats |-> GameStats]

\* load_maze
load_maze_outcomes(g, m) ==
    IF m = EmptyGrid THEN {Outcome(g, FALSE)}
    ELSE {Outcome(reset_game_state([g EXCEPT !.maze = m, !.original_maze = m]), TRUE)}

\* generate_player, lines 254-264: place the player at cell c
PlacePlayer(g, c) ==
    [g EXCEPT !.player_position = c,
              !.maze = [g.maze EXCEPT ![c] = PLAYER],
              !.is_playing = TRUE,
              !.stats = [g.stats EXCEPT !.start_time = Stamp,
                                        !.player_path = Append(@, c)]]

\* generate_player
generate_player_outcomes(g, position) ==
    IF g.maze = None THEN {Outcome(g, FALSE)}
    ELSE IF position # None
         THEN IF ~in_bounds(g, position[1], position[2])
                 \/ ~is_walkable(g, position[1], position[2])
              THEN {Outcome(g, FALSE)}
              ELSE {Outcome(PlacePlayer(g, position), TRUE)}
         ELSE LET room_positions == { c \in DOMAIN g.maze : g.maze[c] = ROOM }
              IN  IF room_positions = {}
                  THEN {Outcome(g, FALSE)}
                  ELSE { Outcome(PlacePlayer(g, c), TRUE) : c \in room_positions }

\* _calculate_distance
calculate_distance(pos1, pos2) == Abs(pos1[1] - pos2[1]) + Abs(pos1[2] - pos2[2])

\* _get_corner_positions
get_corner_positions(g) ==
    << <<0, 0>>, <<0, maze_width(g) - 1>>, <<maze_height(g) - 1, 0>>,
       <<maze_height(g) - 1, maze_width(g) - 1>> >>

\* _find_rooms_near_position
find_rooms_near_position(g, center, radius) ==
    LET min_x == Max2(0, center[1] - radius)
        max_x == Min2(maze_height(g), center[1] + radius + 1)
        min_y == Max2(0, center[2] - radius)
        max_y == Min2(maze_width(g), center[2] + radius + 1)
    IN  { c \in (min_x .. max_x - 1) \X (min_y .. max_y - 1) :
            g.maze[c] = ROOM /\ c # g.player_position }

\* tuple order of (distance, (x, y)) entries
EntryLess(a, b) ==
    \/ a[1] < b[1]
    \/ a[1] = b[1] /\ a[2][1] < b[2][1]
    \/ a[1] = b[1] /\ a[2][1] = b[2][1] /\ a[2][2] < b[2][2]

\* corner_distances.sort(reverse=True): the entries, largest first
RECURSIVE SortReverse(_)
SortReverse(entries) ==
    IF entries = <<>> THEN <<>>
    ELSE LET i == CHOOSE k \in 1 .. Len(entries) :
                     \A j \in 1 .. Len(entries) : ~EntryLess(entries[k], entries[j])
             rest == [k \in 1 .. Len(entries) - 1 |->
                         IF k < i THEN entries[k] ELSE entries[k + 1]]
         IN  <<entries[i]>> \o SortReverse(rest)

\* generate_exit, lines 346-349 / 360-364 / 367-370: put the exit on cell c
PlaceExit(g, c) ==
    [g EXCEPT !.exit_position = c, !.maze = [g.maze EXCEPT ![c] = EXIT]]

\* generate_exit, lines 351-373: the scan of all rooms after the corners
ExitFallback(g, min_dist) ==
    LET available_rooms == get_available_rooms(g, TRUE)
        valid_rooms == { r \in available_rooms :
                           calculate_distance(g.player_position, r) >= min_dist }
        furthest == { r \in valid_rooms : \A o \in valid_rooms :
                        calculate_distance(g.player_position, o)
                          <= calculate_distance(g.player_position, r) }
    IN  IF valid_rooms # {}
        THEN { Outcome(PlaceExit(g, r), TRUE) : r \in furthest }
        ELSE IF available_rooms # {}
             THEN { Outcome(PlaceExit(g, r), TRUE) : r \in available_rooms }
             ELSE {Outcome(g, FALSE)}

\* the corner search without the minimum-distance filter
RECURSIVE CornerSearch_any_distance(_, _, _, _)
CornerSearch_any_distance(g, min_dist, corner_distances, i) ==
    IF i > Len(corner_distances) THEN ExitFallback(g, min_dist)
    ELSE LET rooms == find_rooms_near_position(g, corner_distances[i][2],
                                               exit_search_radius)
         IN  IF rooms # {}
             THEN { Outcome(PlaceExit(g, r), TRUE) : r \in rooms }
             ELSE CornerSearch_any_distance(g, min_dist, corner_distances, i + 1)

\* generate_exit, lines 338-349: the search near the corners, from corner i
RECURSIVE CornerSearch(_, _, _, _)
CornerSearch(g, min_dist, corner_distances, i) ==
    IF i > Len(corner_distances) THEN ExitFallback(g, min_dist)
    ELSE LET rooms == find_rooms_near_position(g, corner_distances[i][2],
                                               exit_search_radius)
             valid_rooms == { r \in rooms :
                                calculate_distance(g.player_position, r) >= min_dist }
         IN  IF valid_rooms # {}
             THEN { Outcome(PlaceExit(g, r), TRUE) : r \in valid_rooms }
             ELSE CornerSearch(g, min_dist, corner_distances, i + 1)

\* min_distance or self.min_exit_distance
MinDist(min_distance) ==
    IF min_distance = None THEN min_exit_distance
    ELSE IF min_distance[1] = 0 THEN min_exit_distance ELSE min_distance[1]

\* generate_exit
generate_exit_outcomes(g, min_distance) ==
    IF g.maze = None \/ ~g.is_playing THEN {Outcome(g, FALSE)}
    ELSE LET corners == get_corner_positions(g)
             corner_distances ==
                 SortReverse([i \in 1 .. 4 |->
                     <<calculate_distance(g.player_position, corners[i]), corners[i]>>])
         IN  CornerSearch(g, MinDist(min_distance), corner_distances, 1)

\* _handle_victory without the append to player_path
handle_victory_no_path(g, new) ==
    [g EXCEPT !.maze = [g.maze EXCEPT ![g.player_position] = VISITED, ![new] = PLAYER],
              !.player_position = new,
              !.game_won = TRUE,
              !.game_over = TRUE,
              !.stats = [g.stats EXCEPT !.end_time = Stamp]]

\* _handle_victory
handle_victory(g, new) ==
    [g EXCEPT !.maze = [g.maze EXCEPT ![g.player_position] = VISITED, ![new] = PLAYER],
              !.player_position = new,
              !.game_won = TRUE,
              !.game_over = TRUE,
              !.stats = [g.stats EXCEPT !.end_time = Stamp,
                                        !.player_path = Append(@, new)]]

\* _execute_move
execute_move(g, new) ==
    [g EXCEPT !.maze = [g.maze EXCEPT ![g.player_position] = VISITED, ![new] = PLAYER],
              !.player_position = new,
              !.stats = [g.stats EXCEPT !.player_path = Append(@, new)]]

\* the cell a move in direction k aims at
Target(g, k) ==
    <<g.player_position[1] + DIRECTION_MAPPING(k)[1],
      g.player_position[2] + DIRECTION_MAPPING(k)[2]>>

\* move_player testing the target against the CellType member
move_player_outcome_member_wall(g, direction) ==
    IF ~g.is_playing \/ g.game_over THEN Outcome(g, FALSE)
    ELSE IF direction \notin MoveKeys THEN Outcome(g, FALSE)
    ELSE LET new == Target(g, direction)
         IN  IF ~in_bounds(g, new[1], new[2]) THEN Outcome(g, FALSE)
             ELSE IF IntEqualsMember(g.maze[new], WALL) THEN Outcome(g, FALSE)
             ELSE LET counted == [g EXCEPT !.stats.moves_count = @ + 1]
                  IN  IF g.maze[new] = EXIT
                      THEN Outcome(handle_victory(counted, new), TRUE)
                      ELSE Outcome(execute_move(counted, new), TRUE)

\* move_player counting the move before the bounds and wall tests
move_player_outcome_counting_blocked(g, direction) ==
    IF ~g.is_playing \/ g.game_over THEN Outcome(g, FALSE)
    ELSE IF direction \notin MoveKeys THEN Outcome(g, FALSE)
    ELSE LET new == Target(g, direction)
             counted == [g EXCEPT !.stats.moves_count = @ + 1]
         IN  IF ~in_bounds(g, new[1], new[2]) THEN Outcome(counted, FALSE)
             ELSE IF g.maze[new] = WALL THEN Outcome(counted, FALSE)
             ELSE IF g.maze[new] = EXIT
                  THEN Outcome(handle_victory(counted, new), TRUE)
                  ELSE Outcome(execute_move(counted, new), TRUE)

\* move_player without the game_over test
move_player_outcome_after_over(g, direction) ==
    IF ~g.is_playing THEN Outcome(g, FALSE)
    ELSE IF direction \notin MoveKeys THEN Outcome(g, FALSE)
    ELSE LET new == Target(g, direction)
         IN  IF ~in_bounds(g, new[1], new[2]) THEN Outcome(g, FALSE)
             ELSE IF g.maze[new] = WALL THEN Outcome(g, FALSE)
             ELSE LET counted == [g EXCEPT !.stats.moves_count = @ + 1]
                  IN  IF g.maze[new] = EXIT
                      THEN Outcome(handle_victory(counted, new), TRUE)
                      ELSE Outcome(execute_move(counted, new), TRUE)

\* move_player
move_player_outcome(g, direction) ==
    IF ~g.is_playing \/ g.game_over THEN Outcome(g, FALSE)
    ELSE IF direction \notin MoveKeys THEN Outcome(g, FALSE)
    ELSE LET new == Target(g, direction)
         IN  IF ~in_bounds(g, new[1], new[2]) THEN Outcome(g, FALSE)
             ELSE IF g.maze[new] = WALL THEN Outcome(g, FALSE)
             ELSE LET counted == [g EXCEPT !.stats.moves_count = @ + 1]
                  IN  IF g.maze[new] = EXIT
                      THEN Outcome(handle_victory(counted, new), TRUE)
                      ELSE Outcome(execute_move(counted, new), TRUE)

\* is_valid_move
is_valid_move(g, direction) ==
    IF ~g.is_playing \/ direction \notin MoveKeys THEN FALSE
    ELSE LET new == Target(g, direction)
         IN  in_bounds(g, new[1], new[2]) /\ is_walkable(g, new[1], new[2])

RECURSIVE SelectValid(_, _)
SelectValid(g, keys) ==
    IF keys = <<>> THEN <<>>
    ELSE IF is_valid_move(g, Head(keys))
         THEN <<Head(keys)>> \o SelectValid(g, Tail(keys))
         ELSE SelectValid(g, Tail(keys))

\* get_move_suggestions
get_move_suggestions(g) == SelectValid(g, <<"w", "a", "s", "d">>)

\* start_game
start_game_outcomes(g, player_pos, min_exit_dist) ==
    IF g.maze = None THEN {Outcome(g, FALSE)}
    ELSE LET restored == IF g.original_maze # None
                         THEN [g EXCEPT !.maze = g.original_maze]
                         ELSE g
             cleared == reset_game_state(restored)
             placed == generate_player_outcomes(cleared, player_pos)
         IN  UNION { IF p.ret
                     THEN generate_exit_outcomes(p.g, min_exit_dist)
                     ELSE {Outcome(p.g, FALSE)} : p \in placed }

Call(op, arg, r) == [op |-> op, arg |-> arg, ret |-> r]

(***************************************************************************)
(* MazeDP.  Values and rewards are fixed-point numbers, integers in units  *)
(* of 1/Unit; the product gamma * V is rounded down to a multiple of       *)
(* 1/Unit.  Two solvers built from equal arguments, dp and twin, are       *)
(* driven by the same calls, so that their results can be compared.        *)
(***************************************************************************)
\* the fixed-point value of 1.0
Unit == 100000

\* largest max_iterations argument below the default of 100
MaxIter == 2

\* how many times an algorithm is run on one solver
MaxRuns == 1

\* default of the max_iterations argument of value_iteration
DefaultMaxIterations == 100

\* default of the theta argument: 1e-4
DefaultTheta == Unit \div 10000

\* _setup_rewards: the step reward -0.04
DefaultStepReward == -((4 * Unit) \div 100)

\* _setup_rewards: the reward 10 of an EXIT cell
DefaultGoalReward == 10 * Unit

\* _policy_evaluation: default of max_eval_iterations
max_eval_iterations == 100

\* the 5x5 grid with a WALL border, an open interior and one EXIT
OpenGrid5 ==
    [c \in CellsOf(5, 5) |->
        IF c[1] \in {0, 4} \/ c[2] \in {0, 4} THEN WALL
        ELSE IF c = <<3, 3>> THEN EXIT ELSE ROOM]

\* grids handed to MazeDP(...)
DPGrids == [CellsOf(1, 3) -> {WALL, ROOM, EXIT}] \cup {OpenGrid5}

\* values of gamma, as fractions <<numerator, denominator>>: 0.9 and 1.0
GammaInputs == { <<9, 10>>, <<1, 1>> }

\* values of the goal_reward argument of update_rewards: 10.0 and 5.0
GoalInputs == { 10 * Unit, 5 * Unit }

\* values of the step_reward argument of update_rewards: -0.04 and 0.1
StepInputs == { DefaultStepReward, Unit \div 10 }

\* values of the theta argument: 0, 1e-4 and 1.0
ThetaInputs == { 0, DefaultTheta, Unit }

\* (max_iterations, theta) arguments of value_iteration: the small ones and
\* the defaults
ValueIterationArgs ==
    ((0 .. MaxIter) \X ThetaInputs) \cup { <<DefaultMaxIterations, DefaultTheta>> }

\* self.actions
actions == 0 .. 3

\* self.action_deltas
action_deltas(action) ==
    CASE action = 0 -> <<-1, 0>>
      [] action = 1 -> <<0, 1>>
      [] action = 2 -> <<1, 0>>
      [] action = 3 -> <<0, -1>>

\* gamma * v
GammaTimes(gamma, v) == (gamma[1] * v) \div gamma[2]

\* max of a non-empty set of numbers
SetMax(S) == CHOOSE v \in S : \A w \in S : w <= v

\* what a call has produced: nothing yet, an exception, or a result record
Raised == [kind |-> "raised"]

\* _find_terminal_states
find_terminal_states(maze) == { c \in DOMAIN maze : maze[c] = EXIT }

\* _setup_rewards with a step reward of 0
setup_rewards_no_penalty(maze) ==
    [c \in DOMAIN maze |-> IF maze[c] = EXIT THEN DefaultGoalReward ELSE 0]

\* _setup_rewards
setup_rewards(maze) ==
    [c \in DOMAIN maze |->
        IF maze[c] = WALL THEN 0
        ELSE IF maze[c] = EXIT THEN DefaultGoalReward
        ELSE DefaultStepReward]

\* MazeDP.__init__
MazeDP(maze, gamma) ==
    [maze |-> maze,
     gamma |-> gamma,
     rows |-> Cardinality({ c[1] : c \in DOMAIN maze }),
     cols |-> Cardinality({ c[2] : c \in DOMAIN maze }),
     value_function |-> [c \in DOMAIN maze |-> 0],
     policy |-> [c \in DOMAIN maze |-> 0],
     terminal_states |-> find_terminal_states(maze),
     rewards |-> setup_rewards(maze),
     convergence_history |-> <<>>,
     pc |-> "idle",            \* where the running call stands
     max_iterations |-> 0,     \* arguments of the running call
     theta |-> 0,
     iteration |-> -1,         \* the loop variable, -1 while it is unbound
     max_delta |-> 0,
     eval_sweeps |-> 0,        \* sweeps made by the last _policy_evaluation
     runs |-> 0,               \* algorithm calls made on the solver
     result |-> None]          \* what the last algorithm call returned

\* update_rewards, without custom_rewards
update_rewards(s, step_reward, goal_reward, wall_reward) ==
    [s EXCEPT !.rewards =
        [c \in DOMAIN s.maze |->
            IF s.maze[c] = WALL THEN wall_reward
            ELSE IF s.maze[c] = EXIT THEN goal_reward
            ELSE step_reward]]

\* _is_valid_state
is_valid_state(s, row, col) ==
    /\ 0 <= row /\ row < s.rows
    /\ 0 <= col /\ col < s.cols
    /\ s.maze[<<row, col>>] # WALL

\* _get_next_state
get_next_state(s, row, col, action) ==
    LET new_row == row + action_deltas(action)[1]
        new_col == col + action_deltas(action)[2]
    IN  IF ~is_valid_state(s, new_row, new_col)
        THEN <<row, col>>
        ELSE <<new_row, new_col>>

\* _is_terminal finding no terminal state
is_terminal_never(s, row, col) == FALSE

\* _is_terminal
is_terminal(s, row, col) == <<row, col>> \in s.terminal_states

\* the cells a sweep does not skip
SweepCells(s) ==
    { c \in DOMAIN s.maze :
        ~(~is_valid_state(s, c[1], c[2]) \/ is_terminal(s, c[1], c[2])) }

\* action_values reading the reward of the cell the action leads to
action_values_next_reward(s, V, c) ==
    [action \in actions |->
        LET next == get_next_state(s, c[1], c[2], action)
        IN  s.rewards[next] + GammaTimes(s.gamma, V[next])]

\* the list action_values of cell c, computed from the values V
action_values(s, V, c) ==
    [action \in actions |->
        s.rewards[c] + GammaTimes(s.gamma, V[get_next_state(s, c[1], c[2], action)])]

\* an argmax returning the last index of the maximum
argmax_last(av) ==
    CHOOSE a \in DOMAIN av :
        /\ av[a] = SetMax({ av[b] : b \in DOMAIN av })
        /\ \A b \in DOMAIN av : b > a => av[b] # av[a]

\* np.argmax: the first index of the maximum
argmax(av) ==
    CHOOSE a \in DOMAIN av :
        /\ av[a] = SetMax({ av[b] : b \in DOMAIN av })
        /\ \A b \in DOMAIN av : b < a => av[b] # av[a]

\* max_delta after a sweep from old_values to new_values
MaxDelta(s, old_values, new_values) ==
    SetMax({0} \cup { Abs(new_values[c] - old_values[c]) : c \in SweepCells(s) })

\* the cells in the order of the loops over range(rows) and range(cols)
CellAt(s, i) == <<(i - 1) \div s.cols, (i - 1) % s.cols>>

\* the loops over the cells with the backups reading the array that is being
\* written instead of old_values
RECURSIVE value_sweep_from_in_place(_, _, _, _)
value_sweep_from_in_place(s, old_values, values, i) ==
    IF i > s.rows * s.cols THEN values
    ELSE LET c == CellAt(s, i)
         IN  IF ~is_valid_state(s, c[1], c[2]) \/ is_terminal(s, c[1], c[2])
             THEN value_sweep_from_in_place(s, old_values, values, i + 1)
             ELSE value_sweep_from_in_place(s, old_values,
                      [values EXCEPT ![c] =
                          SetMax({ action_values(s, values, c)[a] : a \in actions })],
                      i + 1)

\* value_iteration, lines 136-149: the loops over the cells from cell i on;
\* self.value_function is written in place, the backups read old_values
RECURSIVE value_sweep_from(_, _, _, _)
value_sweep_from(s, old_values, values, i) ==
    IF i > s.rows * s.cols THEN values
    ELSE LET c == CellAt(s, i)
         IN  IF ~is_valid_state(s, c[1], c[2]) \/ is_terminal(s, c[1], c[2])
             THEN value_sweep_from(s, old_values, values, i + 1)
             ELSE value_sweep_from(s, old_values,
                      [values EXCEPT ![c] =
                          SetMax({ action_values(s, old_values, c)[a] : a \in actions })],
                      i + 1)

\* value_iteration, lines 132-153: the value function after one sweep
value_sweep(s, old_values) == value_sweep_from(s, old_values, old_values, 1)

\* _extract_policy
extract_policy(s) ==
    [s EXCEPT !.policy =
        [c \in DOMAIN s.maze |->
            IF c \in SweepCells(s)
            THEN argmax(action_values(s, s.value_function, c))
            ELSE s.policy[c]]]

\* value_iteration, lines 129-131: the call begins; with max_iterations = 0
\* the loop body never runs, _extract_policy runs and building the result
\* raises UnboundLocalError (iteration and max_delta are unbound)
value_iteration_begin(s, max_iterations, theta) ==
    LET started == [s EXCEPT !.convergence_history = <<>>,
                             !.max_iterations = max_iterations,
                             !.theta = theta,
                             !.iteration = -1,
                             !.runs = @ + 1,
                             !.result = None]
    IN  IF max_iterations > 0
        THEN [started EXCEPT !.pc = "vi"]
        ELSE [extract_policy(started) EXCEPT !.result = Raised]

\* value_iteration, lines 131-160: one iteration of the loop
value_iteration_sweep(s) ==
    LET old_values == s.value_function
        new_values == value_sweep(s, old_values)
        max_delta == MaxDelta(s, old_values, new_values)
        iteration == s.iteration + 1
    IN  [s EXCEPT !.value_function = new_values,
                  !.max_delta = max_delta,
                  !.iteration = iteration,
                  !.convergence_history = Append(@, max_delta),
                  !.pc = IF max_delta < s.theta \/ iteration + 1 = s.max_iterations
                         THEN "vi_done" ELSE "vi"]

\* value_iteration, lines 162-170: the policy is extracted, the record built
value_iteration_return(s) ==
    LET e == extract_policy(s)
    IN  [e EXCEPT !.pc = "idle",
                  !.result = [kind |-> "returned",
                              iterations |-> s.iteration + 1,
                              converged |-> s.max_delta < s.theta,
                              final_delta |-> s.max_delta,
                              convergence_history |-> s.convergence_history]]

\* _policy_evaluation, lines 232-239: the loops over the cells from cell i on
RECURSIVE evaluation_sweep_from(_, _, _, _)
evaluation_sweep_from(s, old_values, values, i) ==
    IF i > s.rows * s.cols THEN values
    ELSE LET c == CellAt(s, i)
         IN  IF ~is_valid_state(s, c[1], c[2]) \/ is_terminal(s, c[1], c[2])
             THEN evaluation_sweep_from(s, old_values, values, i + 1)
             ELSE evaluation_sweep_from(s, old_values,
                      [values EXCEPT ![c] =
                          s.rewards[c]
                            + GammaTimes(s.gamma,
                                old_values[get_next_state(s, c[1], c[2], s.policy[c])])],
                      i + 1)

\* _policy_evaluation, lines 229-242: the value function after one sweep
evaluation_sweep(s, old_values) == evaluation_sweep_from(s, old_values, old_values, 1)

\* the loop of _policy_evaluation is computed in blocks of this many sweeps
EvalBlock == 10

\* _policy_evaluation, lines 228-245: the sweeps from sweep k up to sweep
\* limit; done tells that the loop has ended (break, or range exhausted)
RECURSIVE evaluation_sweeps(_, _, _, _)
evaluation_sweeps(s, values, k, limit) ==
    IF k = max_eval_iterations THEN [values |-> values, k |-> k, done |-> TRUE]
    ELSE IF k = limit THEN [values |-> values, k |-> k, done |-> FALSE]
    ELSE LET new_values == evaluation_sweep(s, values)
         IN  IF MaxDelta(s, values, new_values) < DefaultTheta
             THEN [values |-> new_values, k |-> k + 1, done |-> TRUE]
             ELSE evaluation_sweeps(s, new_values, k + 1, limit)

\* _policy_evaluation: the loop from sweep k on, with the value function it
\* leaves and the number of sweeps made
RECURSIVE policy_evaluation_from(_, _, _)
policy_evaluation_from(s, values, k) ==
    LET block == evaluation_sweeps(s, values, k, k + EvalBlock)
    IN  IF block.done THEN block
        ELSE policy_evaluation_from(s, block.values, block.k)

\* _policy_evaluation
policy_evaluation(s) ==
    LET loop == policy_evaluation_from(s, s.value_function, 0)
    IN  [s EXCEPT !.value_function = loop.values, !.eval_sweeps = loop.k]

\* _policy_improvement: the new policy
improved_policy(s) == extract_policy(s).policy

\* _policy_improvement never reporting a stable policy
policy_stable_never(s) == FALSE

\* _policy_improvement: the value it returns
policy_stable(s) ==
    \A c \in SweepCells(s) : s.policy[c] = improved_policy(s)[c]

\* np.random.default_rng(42).choice(self.actions) on an instance seeded from
\* its own identity: the twin draws another action
seeded_choice_per_instance(first_draw, is_twin) ==
    IF is_twin THEN (first_draw + 1) % 4 ELSE first_draw

\* np.random.default_rng(42).choice(self.actions): the first draw of a
\* generator seeded with the constant 42, the same on every call
seeded_choice(first_draw, is_twin) == first_draw

\* policy_iteration, lines 199-207: the call begins; with max_iterations = 0
\* building the result raises UnboundLocalError
policy_iteration_begin(s, max_iterations, first_draw, is_twin) ==
    LET started ==
            [s EXCEPT !.convergence_history = <<>>,
                      !.max_iterations = max_iterations,
                      !.iteration = -1,
                      !.runs = @ + 1,
                      !.result = None,
                      !.policy = [c \in DOMAIN s.maze |->
                                     IF is_valid_state(s, c[1], c[2])
                                        /\ ~is_terminal(s, c[1], c[2])
                                     THEN seeded_choice(first_draw, is_twin)
                                     ELSE s.policy[c]]]
    IN  IF max_iterations > 0
        THEN [started EXCEPT !.pc = "pi_eval"]
        ELSE [started EXCEPT !.result = Raised]

\* policy_iteration, lines 207-209: an iteration begins with the evaluation
policy_iteration_evaluate(s) ==
    [policy_evaluation(s) EXCEPT !.iteration = @ + 1, !.pc = "pi_improve"]

\* policy_iteration, lines 211-224: improvement, history, end of the loop
policy_iteration_improve(s) ==
    LET stable == policy_stable(s)
        history == Append(s.convergence_history, IF stable THEN 0 ELSE 1)
        improved == [s EXCEPT !.policy = improved_policy(s),
                              !.convergence_history = history]
    IN  IF stable \/ s.iteration + 1 = s.max_iterations
        THEN [improved EXCEPT !.pc = "idle",
                              !.result = [kind |-> "returned",
                                          iterations |-> s.iteration + 1,
                                          converged |-> stable,
                                          convergence_history |-> history]]
        ELSE [improved EXCEPT !.pc = "pi_eval"]

VARIABLES
    dp,            \* a MazeDP instance
    twin,          \* a second MazeDP instance built from an equal grid and gamma
    rng42,         \* the action default_rng(42).choice returns, None until drawn
    dp_call        \* the last method called on the solvers

dp_vars == <<dp, twin, rng42, dp_call>>

\* solvers on which nothing is ever called
NoSolver ==
    /\ dp = MazeDP([c \in CellsOf(1, 1) |-> ROOM], <<1, 1>>)
    /\ twin = dp
    /\ rng42 = None
    /\ dp_call = "none"

\* the game engine before any MazeGame is constructed
NoGame ==
    /\ game = NewGame(None)
    /\ caller_maze = None
    /\ aliased = FALSE
    /\ last = Call("init", None, None)

\* a generator on which generate() is never called
NoGenerator ==
    /\ config = MazeConfig(CHOOSE c \in RawConfigs : validate_config(c))
    /\ gen_maze = [c \in GenCells |-> UNVISITED]
    /\ gen_stats = [rooms |-> 0, walls |-> 0, room_percentage |-> Frac(0, 1)]
    /\ queue = <<>>
    /\ neighbors = <<>>
    /\ nidx = 0
    /\ gen_pc = "idle"
    /\ gen_calls = 0
    /\ gen_start = None
    /\ last_room = None
    /\ enqueued = {}

\* the caller's list follows the engine's grid while both are one object
CallerAfter == caller_maze' = IF aliased' THEN game'.maze ELSE caller_maze

PathBounded == Len(game'.stats.player_path) <= MaxPath

GameInit ==
    /\ \E m \in GameGrids \cup {None} :
          /\ game = NewGame(m)
          /\ caller_maze = m
          /\ aliased = (m # None)
    /\ last = Call("init", None, None)
    /\ NoGenerator
    /\ NoSolver

\* load_maze keeping the caller's list instead of copying it
LoadMaze_no_copy ==
    /\ UNCHANGED <<gen_vars, dp_vars>>
    /\ \E m \in GameGrids \cup {EmptyGrid} :
       \E o \in load_maze_outcomes(game, m) :
          /\ game' = o.g
          /\ last' = Call("load_maze", None, o.ret)
          /\ aliased' = IF o.ret THEN TRUE ELSE aliased
          /\ caller_maze' = IF o.ret THEN m ELSE caller_maze

LoadMaze ==
    /\ UNCHANGED <<gen_vars, dp_vars>>
    /\ \E m \in GameGrids \cup {EmptyGrid} :
       \E o \in load_maze_outcomes(game, m) :
          /\ game' = o.g
          /\ last' = Call("load_maze", None, o.ret)
          /\ aliased' = IF o.ret THEN FALSE ELSE aliased
          /\ caller_maze' = IF o.ret THEN m ELSE caller_maze

GeneratePlayer ==
    /\ UNCHANGED <<gen_vars, dp_vars>>
    /\ \E position \in PositionInputs :
       \E o \in generate_player_outcomes(game, position) :
          /\ game' = o.g
          /\ PathBounded
          /\ last' = Call("generate_player", None, o.ret)
          /\ aliased' = aliased
          /\ CallerAfter

GenerateExit ==
    /\ UNCHANGED <<gen_vars, dp_vars>>
    /\ \E min_distance \in DistanceInputs :
       \E o \in generate_exit_outcomes(game, min_distance) :
          /\ game' = o.g
          /\ last' = Call("generate_exit", min_distance, o.ret)
          /\ aliased' = aliased
          /\ CallerAfter

MovePlayer ==
    /\ UNCHANGED <<gen_vars, dp_vars>>
    /\ \E direction \in DirectionInputs :
       LET o == move_player_outcome(game, direction)
       IN  /\ game' = o.g
           /\ PathBounded
           /\ last' = Call("move_player", direction, o.ret)
           /\ aliased' = aliased
           /\ CallerAfter

StartGame ==
    /\ UNCHANGED <<gen_vars, dp_vars>>
    /\ \E player_pos \in PositionInputs, min_exit_dist \in DistanceInputs :
       \E o \in start_game_outcomes(game, player_pos, min_exit_dist) :
          /\ game' = o.g
          /\ last' = Call("start_game", None, o.ret)
          /\ aliased' = IF game.maze # None /\ game.original_maze # None
                        THEN FALSE ELSE aliased
          /\ CallerAfter

GetMoveSuggestions ==
    /\ last' = Call("get_move_suggestions", None, get_move_suggestions(game))
    /\ UNCHANGED <<game, caller_maze, aliased>>
    /\ UNCHANGED <<gen_vars, dp_vars>>

GameNext ==
    \/ LoadMaze
    \/ GeneratePlayer
    \/ GenerateExit
    \/ MovePlayer
    \/ StartGame
    \/ GetMoveSuggestions

GenInit ==
    /\ \E c \in RawConfigs :
          /\ validate_config(c)
          /\ config = MazeConfig(c)
    /\ gen_maze = [c \in GenCells |-> UNVISITED]
    /\ gen_stats = [rooms |-> 0, walls |-> 0, room_percentage |-> Frac(0, 1)]
    /\ queue = <<>>
    /\ neighbors = <<>>
    /\ nidx = 0
    /\ gen_pc = "idle"
    /\ gen_calls = 0
    /\ gen_start = None
    /\ last_room = None
    /\ enqueued = {}
    /\ NoGame
    /\ NoSolver

\* generate(), up to the while loop, not counting the start cell
GenerateStart_uncounted ==
    /\ gen_pc # "running"
    /\ gen_calls < MaxGenCalls
    /\ \E start \in GenCells :
          /\ gen_maze' = [gen_maze EXCEPT ![start] = ROOM]
          /\ queue' = <<start>>
          /\ gen_start' = start
          /\ enqueued' = {start}
    /\ gen_stats' = gen_stats
    /\ neighbors' = <<>>
    /\ nidx' = 0
    /\ gen_pc' = "running"
    /\ gen_calls' = gen_calls + 1
    /\ UNCHANGED <<config, last_room>>
    /\ UNCHANGED <<game_vars, dp_vars>>

\* generate(), up to the while loop
GenerateStart ==
    /\ gen_pc # "running"
    /\ gen_calls < MaxGenCalls
    /\ \E start \in GenCells :
          /\ gen_maze' = [gen_maze EXCEPT ![start] = ROOM]
          /\ queue' = <<start>>
          /\ gen_start' = start
          /\ enqueued' = {start}
    /\ gen_stats' = [gen_stats EXCEPT !.rooms = @ + 1]
    /\ neighbors' = <<>>
    /\ nidx' = 0
    /\ gen_pc' = "running"
    /\ gen_calls' = gen_calls + 1
    /\ UNCHANGED <<config, last_room>>
    /\ UNCHANGED <<game_vars, dp_vars>>

\* generate(): queue.pop(0) and get_unvisited_neighbors
GenerateDequeue ==
    /\ gen_pc = "running"
    /\ nidx = Len(neighbors)
    /\ queue # <<>>
    /\ LET cell == Head(queue)
           orders == weighted_shuffle(config.direction_weights)
       IN  /\ queue' = Tail(queue)
           /\ IF orders = {}
              THEN /\ gen_pc' = "crashed"
                   /\ neighbors' = <<>>
              ELSE /\ gen_pc' = "running"
                   /\ \E ordered_dirs \in orders :
                         neighbors' = get_unvisited_neighbors(gen_maze, cell[1], cell[2],
                                                              ordered_dirs)
    /\ nidx' = 0
    /\ UNCHANGED <<config, gen_maze, gen_stats, gen_calls, gen_start, last_room,
                   enqueued>>
    /\ UNCHANGED <<game_vars, dp_vars>>

\* process_neighbor for neighbors[nidx]
process_neighbor ==
    /\ gen_pc = "running"
    /\ nidx < Len(neighbors)
    /\ LET nx == neighbors[nidx + 1][1]
           ny == neighbors[nidx + 1][2]
           room_prob == calculate_room_probability(gen_maze, nx, ny, nidx, Len(neighbors))
       IN  \E below \in RandBelow(room_prob) :
              /\ IF should_create_room(gen_maze, nx, ny, below)
                 THEN /\ gen_maze' = [gen_maze EXCEPT ![<<nx, ny>>] = ROOM]
                      /\ gen_stats' = [gen_stats EXCEPT !.rooms = @ + 1]
                      /\ queue' = Append(queue, <<nx, ny>>)
                      /\ enqueued' = enqueued \cup { <<nx, ny>> }
                 ELSE /\ gen_maze' = [gen_maze EXCEPT ![<<nx, ny>>] = WALL]
                      /\ gen_stats' = [gen_stats EXCEPT !.walls = @ + 1]
                      /\ queue' = queue
                      /\ enqueued' = enqueued
              /\ last_room' = [cell |-> <<nx, ny>>,
                               regions |-> count_room_regions_around(gen_maze, nx, ny),
                               room_nbrs |-> get_room_neighbors(gen_maze, nx, ny),
                               room_prob |-> room_prob,
                               index |-> nidx,
                               total |-> Len(neighbors),
                               created |-> should_create_room(gen_maze, nx, ny, below)]
    /\ nidx' = nidx + 1
    /\ UNCHANGED <<config, neighbors, gen_pc, gen_calls, gen_start>>
    /\ UNCHANGED <<game_vars, dp_vars>>

\* generate(): the loop ends on an empty queue, finalize_maze runs
GenerateFinish ==
    /\ gen_pc = "running"
    /\ nidx = Len(neighbors)
    /\ queue = <<>>
    /\ gen_maze' = finalize_maze(gen_maze)
    /\ gen_stats' = [gen_stats EXCEPT
                        !.walls = @ + Cardinality({ c \in GenCells : gen_maze[c] = UNVISITED })]
    /\ gen_pc' = "done"
    /\ UNCHANGED <<config, queue, neighbors, nidx, gen_calls, gen_start, last_room,
                   enqueued>>
    /\ UNCHANGED <<game_vars, dp_vars>>

\* save_maze: the statistics it recomputes before writing the files
SaveMaze ==
    /\ gen_pc # "running"
    /\ LET total_cells == config.maze_height * config.maze_width
       IN  gen_stats' = [gen_stats EXCEPT
                           !.room_percentage = IF total_cells > 0
                                               THEN Frac(gen_stats.rooms * 100, total_cells)
                                               ELSE Frac(0, 1)]
    /\ UNCHANGED <<config, gen_maze, queue, neighbors, nidx, gen_pc, gen_calls,
                   gen_start, last_room, enqueued>>
    /\ UNCHANGED <<game_vars, dp_vars>>

GenNext ==
    \/ GenerateStart
    \/ GenerateDequeue
    \/ process_neighbor
    \/ GenerateFinish
    \/ SaveMaze

(***************************************************************************)
(* MazeDP: construction and calls.  Every call is made on dp and on twin   *)
(* with the same arguments (update_rewards may give them different goal    *)
(* rewards); the two objects share nothing, so the order in which their    *)
(* steps are taken does not matter and they are taken together.            *)
(***************************************************************************)
\* (max_iterations) arguments of policy_iteration
PolicyIterationArgs == (0 .. MaxIter) \cup {DefaultMaxIterations}

BothIdle == dp.pc = "idle" /\ twin.pc = "idle"

DPInit ==
    /\ \E maze \in DPGrids, gamma \in GammaInputs :
          /\ dp = MazeDP(maze, gamma)
          /\ twin = MazeDP(maze, gamma)
    /\ rng42 = None
    /\ dp_call = "none"
    /\ NoGame
    /\ NoGenerator

\* update_rewards(step_reward, goal_reward, wall_reward) on both solvers: dp
\* is given the default goal reward again, twin any of the goal rewards
UpdateRewards ==
    /\ BothIdle
    /\ \E step_reward \in StepInputs, goal_reward \in GoalInputs :
          /\ dp' = update_rewards(dp, step_reward, DefaultGoalReward, 0)
          /\ twin' = update_rewards(twin, step_reward, goal_reward, 0)
    /\ dp_call' = "update_rewards"
    /\ UNCHANGED rng42
    /\ UNCHANGED <<gen_vars, game_vars>>

\* value_iteration(max_iterations, theta) is called
ValueIteration ==
    /\ BothIdle
    /\ dp.runs < MaxRuns
    /\ \E args \in ValueIterationArgs :
          /\ dp' = value_iteration_begin(dp, args[1], args[2])
          /\ twin' = value_iteration_begin(twin, args[1], args[2])
    /\ dp_call' = "value_iteration"
    /\ UNCHANGED rng42
    /\ UNCHANGED <<gen_vars, game_vars>>

\* value_iteration: one sweep
ValueIterationSweep ==
    /\ "vi" \in {dp.pc, twin.pc}
    /\ dp' = IF dp.pc = "vi" THEN value_iteration_sweep(dp) ELSE dp
    /\ twin' = IF twin.pc = "vi" THEN value_iteration_sweep(twin) ELSE twin
    /\ UNCHANGED <<rng42, dp_call>>
    /\ UNCHANGED <<gen_vars, game_vars>>

\* value_iteration: policy extraction and return
ValueIterationReturn ==
    /\ "vi_done" \in {dp.pc, twin.pc}
    /\ dp' = IF dp.pc = "vi_done" THEN value_iteration_return(dp) ELSE dp
    /\ twin' = IF twin.pc = "vi_done" THEN value_iteration_return(twin) ELSE twin
    /\ UNCHANGED <<rng42, dp_call>>
    /\ UNCHANGED <<gen_vars, game_vars>>

\* policy_iteration(max_iterations) is called
PolicyIteration ==
    /\ BothIdle
    /\ dp.runs < MaxRuns
    /\ \E max_iterations \in PolicyIterationArgs :
       \E first_draw \in (IF rng42 = None THEN actions ELSE {rng42[1]}) :
          /\ dp' = policy_iteration_begin(dp, max_iterations, first_draw, FALSE)
          /\ twin' = policy_iteration_begin(twin, max_iterations, first_draw, TRUE)
          /\ rng42' = <<first_draw>>
    /\ dp_call' = "policy_iteration"
    /\ UNCHANGED <<gen_vars, game_vars>>

\* policy_iteration: _policy_evaluation
PolicyEvaluation ==
    /\ "pi_eval" \in {dp.pc, twin.pc}
    /\ dp' = IF dp.pc = "pi_eval" THEN policy_iteration_evaluate(dp) ELSE dp
    /\ twin' = IF twin.pc = "pi_eval" THEN policy_iteration_evaluate(twin) ELSE twin
    /\ UNCHANGED <<rng42, dp_call>>
    /\ UNCHANGED <<gen_vars, game_vars>>

\* policy_iteration: _policy_improvement, and the return when the loop ends
PolicyImprovement ==
    /\ "pi_improve" \in {dp.pc, twin.pc}
    /\ dp' = IF dp.pc = "pi_improve" THEN policy_iteration_improve(dp) ELSE dp
    /\ twin' = IF twin.pc = "pi_improve" THEN policy_iteration_improve(twin) ELSE twin
    /\ UNCHANGED <<rng42, dp_call>>
    /\ UNCHANGED <<gen_vars, game_vars>>

DPNext ==
    \/ UpdateRewards
    \/ ValueIteration
    \/ ValueIterationSweep
    \/ ValueIterationReturn
    \/ PolicyIteration
    \/ PolicyEvaluation
    \/ PolicyImprovement

vars == <<config, gen_maze, gen_stats, queue, neighbors, nidx, gen_pc,
          gen_calls, gen_start, last_room, enqueued, game, caller_maze, aliased, last,
          dp, twin, rng42, dp_call>>

\* the maze generator alone
GenSpec == GenInit /\ [][GenNext]_vars

\* the maze generator with generate() running to its end once called: the
\* loop of generate() is one uninterrupted synchronous call
GenLiveSpec ==
    GenInit /\ [][GenNext]_vars
            /\ WF_vars(GenerateDequeue \/ process_neighbor \/ GenerateFinish)

\* the game engine alone
GameSpec == GameInit /\ [][GameNext]_vars

\* the MDP solvers alone
DPSpec == DPInit /\ [][DPNext]_vars

(***************************************************************************)
(* Properties of the maze generator (checked under GenSpec).               *)
(***************************************************************************)
\* the pairs of distinct ROOM cells, each pair once
RoomPairs(m) ==
    { p \in RoomsOf(m) \X RoomsOf(m) :
        p[1][1] < p[2][1] \/ (p[1][1] = p[2][1] /\ p[1][2] < p[2][2]) }

\* the edges of the 4-adjacency graph of the ROOM cells
RoomEdges(m) == { p \in RoomPairs(m) : Adjacent4(p[1], p[2]) }

RECURSIVE NumComponents(_)
NumComponents(S) ==
    IF S = {} THEN 0
    ELSE LET c == CHOOSE x \in S : TRUE
         IN  1 + NumComponents(S \ Reach({c}, S))

\* a graph has no cycle exactly when edges = vertices - components
NoRoomCycle(m) ==
    Cardinality(RoomEdges(m)) = Cardinality(RoomsOf(m)) - NumComponents(RoomsOf(m))

NoRoomBlock(m) ==
    \A c \in DOMAIN m :
        ~(\A d \in { <<0, 0>>, <<0, 1>>, <<1, 0>>, <<1, 1>> } :
             <<c[1] + d[1], c[2] + d[2]>> \in DOMAIN m
             /\ m[<<c[1] + d[1], c[2] + d[2]>>] = ROOM)

\* the first generate() call on the instance has returned
FreshDone == gen_pc = "done" /\ gen_calls = 1

\* C1: after generate() on a freshly constructed MazeGenerator, every ROOM
\* cell of the grid is reachable from the start cell through 4-adjacent ROOM
\* cells (the ROOM cells form exactly one 4-connected region).
C1_RoomsConnected ==
    FreshDone =>
        /\ gen_maze[gen_start] = ROOM
        /\ Reach({gen_start}, RoomsOf(gen_maze)) = RoomsOf(gen_maze)

\* C1 witness: a finished maze with several rooms and some walls
C1_Witness ==
    /\ FreshDone
    /\ Cardinality(RoomsOf(gen_maze)) >= 4
    /\ \E c \in GenCells : gen_maze[c] = WALL

\* C2: after generate() returns, no cell holds the UNVISITED code; every
\* cell is ROOM or WALL.
C2_NoUnvisited ==
    gen_pc = "done" => \A c \in GenCells : gen_maze[c] \in {ROOM, WALL}

\* C2 witness: a finished maze with a cell that no room ever reached (a
\* WALL with no ROOM neighbour is never a processed neighbour, so it was
\* converted by finalize_maze)
C2_Witness ==
    /\ FreshDone
    /\ \E c \in GenCells :
          /\ gen_maze[c] = WALL
          /\ \A n \in GenCells : Adjacent4(c, n) => gen_maze[n] # ROOM

Called(op) == last'.op = op

\* the step is the call move_player(d)
Moved(d) == last'.op = "move_player" /\ last'.arg = d

CellsWith(g, code) ==
    IF g.maze = None THEN {} ELSE { c \in DOMAIN g.maze : g.maze[c] = code }

\* a player stands on the grid and the cell next to it in direction d is
\* outside the grid or a WALL
Blocked(g, d) ==
    /\ g.maze # None
    /\ g.player_position # None
    /\ \/ ~in_bounds(g, Target(g, d)[1], Target(g, d)[2])
       \/ g.maze[Target(g, d)] = WALL

\* C4: move_player toward a cell that is out of bounds or a WALL returns
\* False and leaves the grid, the player position, the path, moves_count
\* and the won/over flags unchanged.
C4_BlockedMove ==
    [][ \A d \in MoveKeys :
           (Moved(d) /\ Blocked(game, d)) => (last'.ret = FALSE /\ game' = game) ]_vars

\* C4 witness: a move of a playing, unfinished game toward a WALL inside
\* the grid has been refused
C4_Witness ==
    /\ last.op = "move_player"
    /\ last.arg \in MoveKeys
    /\ last.ret = FALSE
    /\ game.is_playing /\ ~game.game_over
    /\ in_bounds(game, Target(game, last.arg)[1], Target(game, last.arg)[2])
    /\ game.maze[Target(game, last.arg)] = WALL

\* the grid holds exactly one EXIT cell, the one generate_exit recorded
OnlyPlacedExit(g) ==
    g.exit_position # None /\ CellsWith(g, EXIT) = {g.exit_position}

\* C5: on a game whose only EXIT cell is the one placed by generate_exit, a
\* move onto the EXIT cell returns True and leaves game_over and game_won
\* true, end_time set, the old cell VISITED, the exit cell PLAYER and the
\* last entry of player_path equal to exit_position.
C5_Victory ==
    [][ \A d \in MoveKeys :
           ( /\ Moved(d)
             /\ game.is_playing /\ ~game.game_over
             /\ OnlyPlacedExit(game)
             /\ Target(game, d) = game.exit_position )
           => ( /\ last'.ret = TRUE
                /\ game'.game_over /\ game'.game_won
                /\ game'.stats.end_time # None
                /\ game'.maze[game.player_position] = VISITED
                /\ game'.maze[game.exit_position] = PLAYER
                /\ game'.player_position = game.exit_position
                /\ game'.exit_position = game.exit_position
                /\ game'.stats.player_path # <<>>
                /\ game'.stats.player_path[Len(game'.stats.player_path)]
                      = game'.exit_position ) ]_vars

\* C5 witness: the player has just stepped onto the recorded exit
C5_Witness ==
    /\ last.op = "move_player"
    /\ last.ret = TRUE
    /\ game.game_won /\ game.game_over
    /\ game.exit_position # None
    /\ game.player_position = game.exit_position
    /\ game.stats.moves_count = 1
    /\ CellsWith(game, EXIT) = {}
    /\ Cardinality(CellsWith(game, VISITED)) = 1

\* C6: once game_over is true, every move_player call returns False and
\* changes nothing, and only load_maze or start_game ends that.
C6_NoMoveWhenOver ==
    [][ game.game_over =>
           /\ Called("move_player") => (last'.ret = FALSE /\ game' = game)
           /\ ~game'.game_over => (Called("load_maze") \/ Called("start_game")) ]_vars

\* C6 witness: a move in a valid direction was refused in a finished game
C6_Witness ==
    /\ game.game_over
    /\ last.op = "move_player"
    /\ last.arg \in MoveKeys
    /\ last.ret = FALSE
    /\ in_bounds(game, Target(game, last.arg)[1], Target(game, last.arg)[2])
    /\ game.maze[Target(game, last.arg)] # WALL

\* C7: for every direction d, is_valid_move(d) is true exactly when
\* move_player(d) called in that state would return True.
C7_ValidMoveAgrees ==
    \A d \in DirectionInputs :
        is_valid_move(game, d) <=> move_player_outcome(game, d).ret

\* C8: the grid holds at most one PLAYER cell, and whenever a player is
\* placed that PLAYER cell is at player_position.
C8_OnePlayer ==
    /\ Cardinality(CellsWith(game, PLAYER)) <= 1
    /\ game.player_position # None => CellsWith(game, PLAYER) = {game.player_position}

\* the step is the call generate_exit(d) for an integer d >= 1
ExitCalled(d) ==
    /\ last'.op = "generate_exit"
    /\ last'.arg # None
    /\ last'.arg[1] = d
    /\ d >= 1

\* C9: whenever generate_exit(d), d >= 1, succeeds and some ROOM cell lies
\* at Manhattan distance >= d from the player, the exit is placed on a ROOM
\* cell at Manhattan distance >= d from the player.
C9_ExitDistance ==
    [][ \A d \in 0 .. 2 :
           ( /\ ExitCalled(d)
             /\ last'.ret = TRUE
             /\ \E r \in CellsWith(game, ROOM) :
                   calculate_distance(game.player_position, r) >= d )
           => ( /\ game'.exit_position \in CellsWith(game, ROOM)
                /\ game'.maze[game'.exit_position] = EXIT
                /\ calculate_distance(game.player_position, game'.exit_position) >= d ) ]_vars

\* C9 witness: generate_exit(2) has put the exit two steps from the player
\* on a grid that still holds a ROOM next to the player
C9_Witness ==
    /\ last.op = "generate_exit"
    /\ last.arg = <<2>>
    /\ last.ret = TRUE
    /\ calculate_distance(game.player_position, game.exit_position) = 2
    /\ \E r \in CellsWith(game, ROOM) : calculate_distance(game.player_position, r) = 1

\* C10: generate_exit returns False, changing nothing, exactly when no grid
\* is loaded, no player has been placed or the grid has no ROOM cell;
\* otherwise it returns True, turns exactly one ROOM cell into EXIT and sets
\* exit_position to it.
C10_ExitFailsOnlyWithoutRooms ==
    [][ Called("generate_exit") =>
           LET no_target == \/ game.maze = None
                            \/ ~game.is_playing
                            \/ CellsWith(game, ROOM) = {}
           IN  /\ (last'.ret = FALSE) <=> no_target
               /\ last'.ret = FALSE => game' = game
               /\ last'.ret = TRUE =>
                     \E c \in CellsWith(game, ROOM) :
                        /\ c # game.player_position
                        /\ game' = [game EXCEPT !.exit_position = c,
                                                !.maze = [game.maze EXCEPT ![c] = EXIT]] ]_vars

\* the step is a call of one of the operations that play on the loaded grid
PlayCall ==
    last'.op \in {"generate_player", "generate_exit", "move_player", "start_game"}

\* C11: after load_maze(grid) has returned True, no generate_player,
\* generate_exit, move_player or start_game call changes the caller's grid
\* or the engine's stored original copy; both stay equal to the loaded grid.
C11_CallerGridUntouched ==
    [][ (game.original_maze # None /\ PlayCall) =>
           /\ caller_maze' = caller_maze
           /\ game'.original_maze = game.original_maze
           /\ caller_maze' = game'.original_maze ]_vars

\* C11 witness: on a loaded grid the player has moved, so the working copy
\* differs from the original copy and from the caller's grid
C11_Witness ==
    /\ game.original_maze # None
    /\ last.op = "move_player"
    /\ last.ret = TRUE
    /\ CellsWith(game, VISITED) # {}
    /\ game.maze # game.original_maze
    /\ caller_maze = game.original_maze

\* C12: after a successful start_game the grid equals the grid given to the
\* game except for exactly one PLAYER cell and one EXIT cell (the given
\* grids hold only WALL and ROOM, so no VISITED cell and no second PLAYER
\* or EXIT cell may remain), and the statistics are fresh: moves_count = 0,
\* end_time unset, player_path = [player position], game_won = game_over =
\* false.
C12_StartGameRestores ==
    (last.op = "start_game" /\ last.ret = TRUE) =>
        /\ Cardinality(CellsWith(game, PLAYER)) = 1
        /\ Cardinality(CellsWith(game, EXIT)) = 1
        /\ CellsWith(game, VISITED) = {}
        /\ game.original_maze # None =>
              \A c \in DOMAIN game.maze :
                 game.maze[c] \notin {PLAYER, EXIT} => game.maze[c] = game.original_maze[c]
        /\ game.stats.moves_count = 0
        /\ game.stats.end_time = None
        /\ game.stats.player_path = <<game.player_position>>
        /\ ~game.game_won /\ ~game.game_over

\* C13: a start_game call that returns False leaves the grid, the player
\* position, the exit position, is_playing and the statistics as they were
\* before the call.
C13_StartGameFailsClean ==
    [][ (Called("start_game") /\ last'.ret = FALSE) =>
           /\ game'.maze = game.maze
           /\ game'.player_position = game.player_position
           /\ game'.exit_position = game.exit_position
           /\ game'.is_playing = game.is_playing
           /\ game'.stats = game.stats ]_vars

(***************************************************************************)
(* Properties of the MDP solver (checked under DPSpec).                    *)
(***************************************************************************)
\* the two solvers
Solvers == {dp, twin}

\* the last call was algorithm op and it has returned a result record
Returned(s, op) ==
    /\ dp_call = op
    /\ s.pc = "idle"
    /\ s.result # None
    /\ s.result.kind = "returned"

\* reward(c) + gamma * V(next(c, a)) under the value function of s
Backup(s, c, a) ==
    s.rewards[c] + GammaTimes(s.gamma, s.value_function[get_next_state(s, c[1], c[2], a)])

\* C14: through every sweep of value_iteration and of policy_iteration
\* (evaluation, improvement, policy extraction) the value and the policy
\* entry of every EXIT cell and of every WALL cell stay at their initial 0.
C14_TerminalsAndWallsUntouched ==
    \A s \in Solvers :
       \A c \in DOMAIN s.maze :
          s.maze[c] \in {EXIT, WALL} => (s.value_function[c] = 0 /\ s.policy[c] = 0)

\* C14 witness: policy_iteration has returned on a grid with an EXIT cell
\* and a WALL cell, and some other cell has a non-zero value and action
C14_Witness ==
    /\ Returned(dp, "policy_iteration")
    /\ \E c \in DOMAIN dp.maze : dp.maze[c] = EXIT
    /\ \E c \in DOMAIN dp.maze : dp.maze[c] = WALL
    /\ \E c \in DOMAIN dp.maze : dp.value_function[c] # 0 /\ dp.policy[c] # 0

\* the actions attaining the maximum backup at cell c
BestActions(s, c) ==
    { a \in actions : \A b \in actions : Backup(s, c, b) <= Backup(s, c, a) }

\* C15: after value_iteration returns, at every non-wall non-terminal cell
\* the policy action attains the maximum over the 4 actions of reward(s) +
\* gamma * V(next(s, a)) under the final value function, and it is the
\* first maximising action in the order UP, RIGHT, DOWN, LEFT (0..3).
C15_PolicyIsFirstBest ==
    \A s \in Solvers :
       Returned(s, "value_iteration") =>
          \A c \in DOMAIN s.maze :
             (s.maze[c] # WALL /\ s.maze[c] # EXIT) =>
                /\ s.policy[c] \in BestActions(s, c)
                /\ \A a \in BestActions(s, c) : s.policy[c] <= a

\* C15 witness: value_iteration has returned; at one cell several actions
\* tie for the maximum without the first action being one of them, at
\* another the only best action is not the first
C15_Witness ==
    /\ Returned(dp, "value_iteration")
    /\ \E c \in SweepCells(dp) :
          Cardinality(BestActions(dp, c)) >= 2 /\ 0 \notin BestActions(dp, c)
    /\ \E c \in SweepCells(dp) :
          Cardinality(BestActions(dp, c)) = 1 /\ dp.policy[c] # 0

\* the cells of s that are not WALL
ValidCells(s) == { c \in DOMAIN s.maze : s.maze[c] # WALL }

\* length of a shortest 4-connected path through non-wall cells from c to a
\* cell of frontier, d steps being already made; -1 when there is none
RECURSIVE ExitDistanceFrom(_, _, _, _, _)
ExitDistanceFrom(s, frontier, seen, c, d) ==
    IF c \in frontier THEN d
    ELSE LET more == { t \in ValidCells(s) \ seen : \E f \in frontier : Adjacent4(f, t) }
         IN  IF more = {} THEN -1
             ELSE ExitDistanceFrom(s, more, seen \cup more, c, d + 1)

\* 4-connected shortest-path distance from c to the EXIT
ExitDistance(s, c) ==
    ExitDistanceFrom(s, s.terminal_states, s.terminal_states, c, 0)

\* one EXIT, and every non-wall cell can reach it
Solvable(s) ==
    /\ Cardinality(s.terminal_states) = 1
    /\ \A c \in ValidCells(s) : ExitDistance(s, c) >= 0

\* the rewards are those of the constructor, or those of update_rewards
\* called with the default step reward
HasDefaultStepReward(s) ==
    \/ s.rewards = setup_rewards(s.maze)
    \/ \E goal_reward \in GoalInputs :
          s.rewards = update_rewards(s, DefaultStepReward, goal_reward, 0).rewards

\* value_iteration(max_iterations=100, theta=1e-4) was the first call on s
\* and has returned
DefaultRunReturned(s) ==
    /\ Returned(s, "value_iteration")
    /\ s.runs = 1
    /\ s.max_iterations = DefaultMaxIterations
    /\ s.theta = DefaultTheta
    /\ HasDefaultStepReward(s)

\* C16: on a grid with one EXIT that every non-wall cell can reach (step
\* reward -0.04, goal reward 10, gamma 0.9 or 1), value_iteration(100, 1e-4)
\* returns converged = true after at most 10 iterations, and from every
\* non-wall non-terminal cell the policy action leads to a cell whose
\* shortest-path distance to the EXIT is smaller by one.
C16_ShortestPathPolicy ==
    \A s \in Solvers :
       (DefaultRunReturned(s) /\ Solvable(s)) =>
          /\ s.result.converged
          /\ s.result.iterations <= 10
          /\ \A c \in SweepCells(s) :
                ExitDistance(s, get_next_state(s, c[1], c[2], s.policy[c]))
                   = ExitDistance(s, c) - 1

\* C16 witness: the run has returned on the 5x5 grid with gamma = 0.9 and
\* the cell farthest from the EXIT, four steps away, has its final value
C16_Witness ==
    /\ DefaultRunReturned(dp)
    /\ dp.maze = OpenGrid5
    /\ dp.gamma = <<9, 10>>
    /\ Solvable(dp)
    /\ ExitDistance(dp, <<1, 1>>) = 4
    /\ dp.result.iterations = 5
    /\ dp.value_function[<<1, 1>>] < dp.value_function[<<1, 2>>]

\* C17: for every max_iterations >= 0 and every theta, value_iteration
\* returns a record with iterations = len(convergence_history) <=
\* max_iterations, final_delta the maximum delta of the last sweep, and
\* converged true exactly when final_delta < theta; the loop stops at the
\* first sweep whose maximum delta is < theta.
C17_ValueIterationRecord ==
    \A s \in Solvers :
       (dp_call = "value_iteration" /\ s.pc = "idle") =>
          /\ s.result # None
          /\ s.result.kind = "returned"
          /\ s.result.iterations = Len(s.result.convergence_history)
          /\ s.result.iterations <= s.max_iterations
          /\ s.result.iterations >= 1
          /\ s.result.final_delta = s.result.convergence_history[s.result.iterations]
          /\ s.result.converged <=> (s.result.final_delta < s.theta)
          /\ \A i \in 1 .. s.result.iterations - 1 :
                ~(s.result.convergence_history[i] < s.theta)

\* the improvement step of policy_iteration on dp
Improves == dp.pc = "pi_improve" /\ dp'.pc # "pi_improve"

SumsToOne(w) ==
    w.UP[1] * w.DOWN[2] * w.LEFT[2] * w.RIGHT[2]
      + w.DOWN[1] * w.UP[2] * w.LEFT[2] * w.RIGHT[2]
      + w.LEFT[1] * w.UP[2] * w.DOWN[2] * w.RIGHT[2]
      + w.RIGHT[1] * w.UP[2] * w.DOWN[2] * w.LEFT[2]
    = w.UP[2] * w.DOWN[2] * w.LEFT[2] * w.RIGHT[2]

\* the sum of a weight map given to the constructor, in units of 1/WDen
RawSum(wts) == wts.UP + wts.DOWN + wts.LEFT + wts.RIGHT

\* C20: the direction weights stored by an accepted MazeConfig sum to 1.0;
\* a map with sum S > 0, S # 1 is divided by S, and a map of all zeros is
\* replaced by four weights of 0.25.
C20_WeightsSumToOne ==
    /\ SumsToOne(config.direction_weights)
    /\ \A c \in RawConfigs :
          validate_config(c) =>
             LET raw == c.direction_weights
                 stored == MazeConfig(c).direction_weights
             IN  /\ SumsToOne(stored)
                 /\ RawSum(raw) = 0 => \A d \in DirNames : stored[d] = <<1, 4>>
                 /\ (RawSum(raw) > 0 /\ RawSum(raw) # WDen) =>
                       \A d \in DirNames :
                          stored[d][1] * RawSum(raw) = raw[d] * stored[d][2]

\* C20 witness: a generator holds the config built from the weight map
\* (UP 0, DOWN 1, LEFT 0.5, RIGHT 0.5), of sum 2.0, divided by its sum
C20_Witness ==
    /\ config.direction_weights.UP = <<0, 1>>
    /\ config.direction_weights.DOWN = <<1, 2>>
    /\ config.direction_weights.LEFT = <<1, 4>>
    /\ config.direction_weights.RIGHT = <<1, 4>>
    /\ gen_calls = 1

(***************************************************************************)
(* More properties of the maze generator (C21 to C25 under GenSpec, C27    *)
(* under GenLiveSpec).                                                     *)
(***************************************************************************)
\* C21: for every configuration that passes validation, also one in which
\* some but not all direction weights are 0, generate() runs to completion
\* without a division error in the weighted shuffle: no generate() call ends
\* in the ZeroDivisionError of 1 / weight.
C21_NoDivisionError == gen_pc # "crashed"

\* the grid in which only the cell start is ROOM and every other cell is
\* UNVISITED
StartGrid(start) == [c \in GenCells |-> IF c = start THEN ROOM ELSE UNVISITED]

\* C22: every call of generate(), also a second call on the same instance,
\* starts from a grid in which every cell is UNVISITED and only the start
\* cell is ROOM, with the statistics counting that one room, so that its
\* results do not depend on earlier calls.
C22_GenerateStartsClean ==
    [][ gen_calls' = gen_calls + 1 =>
            /\ gen_maze' = StartGrid(gen_start')
            /\ gen_stats'.rooms = 1
            /\ gen_stats'.walls = 0 ]_vars

\* the number of cells of the grid holding code
CountOf(m, code) == Cardinality({ c \in DOMAIN m : m[c] = code })

\* C23: after generate() on a fresh generator, stats['rooms'] is the number
\* of ROOM cells of the grid, stats['walls'] is the number of WALL cells, and
\* rooms + walls = height * width.
C23_StatsCountCells ==
    FreshDone =>
        /\ gen_stats.rooms = CountOf(gen_maze, ROOM)
        /\ gen_stats.walls = CountOf(gen_maze, WALL)
        /\ gen_stats.rooms + gen_stats.walls = config.maze_height * config.maze_width

\* C23 witness: a finished maze with rooms made by process_neighbor, walls
\* made by process_neighbor and a wall made by finalize_maze
C23_Witness ==
    /\ FreshDone
    /\ gen_stats.rooms >= 3
    /\ \E c \in GenCells :
          /\ gen_maze[c] = WALL
          /\ \E n \in GenCells : Adjacent4(c, n) /\ gen_maze[n] = ROOM
    /\ \E c \in GenCells :
          /\ gen_maze[c] = WALL
          /\ \A n \in GenCells : Adjacent4(c, n) => gen_maze[n] # ROOM

\* C24: when generate() returns, the statistics hold the room percentage of
\* the grid: stats['room_percentage'] = 100 * rooms / (height * width).
C24_RoomPercentage ==
    [][ (gen_pc = "running" /\ gen_pc' = "done") =>
            gen_stats'.room_percentage =
                Frac(100 * CountOf(gen_maze', ROOM),
                     config.maze_height * config.maze_width) ]_vars

\* C25: for a candidate cell with index i among the N unvisited neighbours
\* of the dequeued cell, the room probability is
\* max(min_room_prob, (i + 1) / N - decay_factor * k), where k is the number
\* of ROOM cells 4-adjacent to the candidate at that moment.
C25_RoomProbability ==
    last_room # None =>
        last_room.room_prob =
            Max2(config.min_room_prob,
                 ((last_room.index + 1) * PScale) \div last_room.total
                    - config.decay_factor * Cardinality(last_room.room_nbrs))

\* C27: generate() always terminates: during one generation every cell is
\* appended to the queue at most once, a cell appended by the loop has just
\* changed from UNVISITED to ROOM, every dequeued cell is ROOM, the loop ends
\* only on an empty queue, and a generate() call that has started ends.
C27_GenerateTerminates ==
    /\ [][ gen_pc = "running" =>
              /\ Len(queue') > Len(queue) =>
                    LET c == queue'[Len(queue')]
                    IN  /\ c \notin enqueued
                        /\ gen_maze[c] = UNVISITED
                        /\ gen_maze'[c] = ROOM
              /\ Len(queue') < Len(queue) => gen_maze[Head(queue)] = ROOM
              /\ gen_pc' = "done" => queue = <<>> ]_vars
    /\ (gen_pc = "running" ~> gen_pc # "running")

\* C27 witness: a generation that enqueued four cells or more has ended on
\* an empty queue
C27_Witness ==
    /\ gen_pc = "done"
    /\ gen_calls = 1
    /\ queue = <<>>
    /\ Cardinality(enqueued) >= 4
    /\ enqueued = RoomsOf(gen_maze)

(***************************************************************************)
(* More properties of the game engine (checked under GameSpec).            *)
(***************************************************************************)
\* C28: when generate_exit is called with an explicit minimum distance d,
\* that value is the threshold of the search for every d >= 0, also d = 0:
\* with a grid loaded and a player placed, generate_exit(0) succeeds as soon
\* as the grid holds a ROOM cell, every ROOM cell being at distance >= 0.
C28_ExplicitZeroDistance ==
    [][ ( /\ last'.op = "generate_exit"
          /\ last'.arg = <<0>>
          /\ game.maze # None
          /\ game.is_playing
          /\ CellsWith(game, ROOM) # {} )
        => ( /\ last'.ret = TRUE
             /\ game'.exit_position \in CellsWith(game, ROOM) ) ]_vars

\* len(player_path) = moves_count + 1, the last entry of the path is the
\* player position and consecutive entries are 4-adjacent cells
PathInvariant(g) ==
    LET path == g.stats.player_path
    IN  /\ Len(path) = g.stats.moves_count + 1
        /\ path[Len(path)] = g.player_position
        /\ \A i \in 1 .. Len(path) - 1 : Adjacent4(path[i], path[i + 1])

\* C29: in every state reached from a successful start_game by move_player
\* calls, moves_count is the number of move_player calls that returned True
\* (the winning move included), len(player_path) = moves_count + 1, the last
\* path entry is the player position and consecutive path entries are
\* 4-adjacent: a successful start_game leaves moves_count = 0 with these
\* facts, and every move_player call keeps them, adding 1 to moves_count
\* exactly when it returns True.
C29_MovesAndPath ==
    [][ /\ (last'.op = "start_game" /\ last'.ret = TRUE)
              => (game'.stats.moves_count = 0 /\ PathInvariant(game'))
        /\ (last'.op = "move_player" /\ game.is_playing /\ PathInvariant(game))
              => ( /\ game'.stats.moves_count
                        = game.stats.moves_count + (IF last'.ret THEN 1 ELSE 0)
                   /\ PathInvariant(game') ) ]_vars

\* C29 witness: two successful moves, the second onto the exit
C29_Witness ==
    /\ last.op = "move_player"
    /\ last.ret = TRUE
    /\ game.game_won
    /\ game.exit_position = game.player_position
    /\ game.stats.moves_count = 2
    /\ PathInvariant(game)

(***************************************************************************)
(* More properties of the MDP solver (checked under DPSpec).               *)
(***************************************************************************)
\* next(c, a): the cell the action leads to, c itself when that cell is out
\* of bounds or a WALL
NextCell(s, c, a) ==
    LET t == <<c[1] + action_deltas(a)[1], c[2] + action_deltas(a)[2]>>
    IN  IF t \in DOMAIN s.maze /\ s.maze[t] # WALL THEN t ELSE c

\* t is s after one value_iteration sweep in which every backup reads the
\* value function s had when the sweep started
SynchronousSweep(s, t) ==
    s.pc = "vi" =>
        \A c \in DOMAIN s.maze :
            t.value_function[c] =
                IF s.maze[c] # WALL /\ s.maze[c] # EXIT
                THEN SetMax({ s.rewards[c]
                                + GammaTimes(s.gamma, s.value_function[NextCell(s, c, a)])
                              : a \in actions })
                ELSE s.value_function[c]

\* C26: in each value_iteration sweep every non-wall non-terminal cell c
\* gets V_new(c) = max over the 4 actions of reward(c) + gamma *
\* V_old(next(c, a)), where V_old is the value function at the start of the
\* sweep (no value written earlier in the same sweep is read) and next(c, a)
\* is c itself when the target is out of bounds or a WALL.
C26_SynchronousBackup ==
    [][ SynchronousSweep(dp, dp') /\ SynchronousSweep(twin, twin') ]_vars

\* C26 witness: after a sweep, value_iteration is about to make a sweep in
\* which reading the values written earlier in the sweep would give another
\* value function
C26_Witness ==
    /\ dp.pc = "vi"
    /\ Len(dp.convergence_history) >= 1
    /\ value_sweep_from_in_place(dp, dp.value_function, dp.value_function, 1)
          # value_sweep(dp, dp.value_function)

====
